---- MODULE Spec2Model ----
(***************************************************************************)
(* A model of src/app.py: a Streamlit page with two forms that send a      *)
(* WhatsApp message, either through pywhatkit (browser automation) or      *)
(* through the Twilio REST API.                                            *)
(*                                                                         *)
(* Python strings are sequences; a string literal of the source is one     *)
(* element of such a sequence, and an f-string is the concatenation of its *)
(* literal parts and its arguments.  The emoji that open the notification  *)
(* texts of the source are left out of the literals.                       *)
(***************************************************************************)
EXTENDS Integers, Sequences, FiniteSets, TLC

VARIABLES
    pc,        \* position of the script run: Idle, Validating, Sending, ...
    callNo,    \* number of the current script run (one dispatch per run)
    form,      \* the values of the submitted form's widgets
    schedule,  \* the dict schedule_time, <<>> before it is built
    now,       \* what datetime.datetime.now() returned, <<>> if not called
    calls,     \* calls made to pywhatkit / client.messages.create in this run
    inflight,  \* a channel call has been made and has not yet returned
    outcome,   \* what the library did: returned a value or raised
    ret,       \* return value of send_twilio_message, <<>> if none
    shown,     \* notifications displayed by st.success/st.error/st.warning
    uncaught   \* an exception that left the submit handler, <<>> if none

vars == <<pc, callNo, form, schedule, now, calls, inflight, outcome, ret,
          shown, uncaught>>

-----------------------------------------------------------------------------
(* Bounds of the model *)

MaxLen == 1          \* longest text typed into a field
MaxCalls == 2        \* script runs followed
MaxNegDelay == 2     \* a direct call passes delays down to -MaxNegDelay

(* Program constants *)

MaxDelay == 60       \* number_input max_value
MinDelay == 1        \* number_input min_value
WaitTime == 15       \* wait_time of sendwhatmsg_instantly

-----------------------------------------------------------------------------
(* Input domains *)

Alphabet == {"+", "1"}

Str == UNION {[1..k -> Alphabet] : k \in 0..MaxLen}

NonEmptyStr == Str \ {<<>>}

CredStr == {<<>>, <<"k">>}

AllNow == [hour : 0..23, minute : 0..59]

NowSample == {[hour |-> 0, minute |-> 0], [hour |-> 12, minute |-> 59],
              [hour |-> 23, minute |-> 58]}

DelaySample == {MinDelay, 5, MaxDelay}

AllDelays == MinDelay..MaxDelay

DirectDelays == (0 - MaxNegDelay)..MaxDelay

-----------------------------------------------------------------------------
(* Exceptions: a class name and a message.  Every class a library call can *)
(* raise here derives from Exception.                                      *)

Ancestors(cls) == {cls, "Exception"}

IsInstance(e, cls) == cls \in Ancestors(e.cls)

BrowserFaults == [cls : {"InternetException", "CallTimeException"}, msg : Str]

ClientFaults == [cls : {"TypeError"}, msg : Str]

CreateFaults == [cls : {"TwilioRestException", "ConnectionError"}, msg : Str]

-----------------------------------------------------------------------------
(* Pure parts of the source *)

\* line 82: if phone_number and message
ValidBrowser(f) == f.phone_number # <<>> /\ f.message # <<>>

\* a test that forgets from_number
ValidTwilioNoFrom(f) ==
    /\ f.account_sid # <<>>
    /\ f.auth_token # <<>>
    /\ f.to_number # <<>>
    /\ f.api_message # <<>>

\* line 118: if all([account_sid, auth_token, from_number, to_number, api_message])
ValidTwilio(f) ==
    /\ f.account_sid # <<>>
    /\ f.auth_token # <<>>
    /\ f.from_number # <<>>
    /\ f.to_number # <<>>
    /\ f.api_message # <<>>

\* minutes added without carrying into the hour
SendTimeNoCarry(n, delay) ==
    [hour |-> n.hour, minute |-> (n.minute + delay) % 60]

\* line 21: now + datetime.timedelta(minutes=delay), of which lines 25-26
\* read .hour and .minute
send_time(n, delay) ==
    LET total == n.hour * 60 + n.minute + delay
    IN  [hour |-> (total \div 60) % 24, minute |-> total % 60]

\* the recipient number passed on as typed
FormattedNoPrefix(to_num) == to_num

\* line 34: f"whatsapp:{to_num}"
formatted_to_num(to_num) == <<"whatsapp:">> \o to_num

\* a success text that drops msg.sid
SuccessMessageNoSid(sid) == <<"Message sent successfully! SID: ">>

\* line 41
SuccessMessage(sid) == <<"Message sent successfully! SID: ">> \o sid

\* an error text that drops e.msg
TwilioErrorMessageNoMsg(e) == <<"Twilio Error: ">>

\* line 43
TwilioErrorMessage(e) == <<"Twilio Error: ">> \o e.msg

\* line 45
UnexpectedMessage(e) == <<"An unexpected error occurred: ">> \o e.msg

\* line 90: f"Error: {str(e)}"
BrowserErrorMessage(e) == <<"Error: ">> \o e.msg

\* line 87
BrowserSuccessMessage == <<"WhatsApp Web has been opened to send your message!">>

\* line 92
BrowserWarning == <<"Please fill in both phone number and message.">>

\* line 128
TwilioWarning == <<"Please fill in all required fields.">>

\* send_twilio_message without its except Exception clause
TwilioOnlyRestCaught == <<"TwilioRestException">>

\* lines 42-45: the except clauses of send_twilio_message, in order
TwilioCaught == <<"TwilioRestException", "Exception">>

\* the browser form's handler without its try/except
BrowserNothingCaught == <<>>

\* line 89: the except clause of the browser form's handler
BrowserCaught == <<"Exception">>

\* the first except clause that matches e, 0 if none does
Clause(e, clauses) ==
    IF \E i \in 1..Len(clauses) : IsInstance(e, clauses[i])
    THEN CHOOSE i \in 1..Len(clauses) :
            /\ IsInstance(e, clauses[i])
            /\ \A j \in 1..(i - 1) : ~IsInstance(e, clauses[j])
    ELSE 0

\* lines 123-126
TwilioNotice(r) ==
    IF r.success
    THEN [level |-> "success", text |-> r.response_message]
    ELSE [level |-> "error", text |-> r.response_message]

-----------------------------------------------------------------------------
(* State *)

DefaultForm ==
    [tab |-> "none", direct |-> FALSE, phone_number |-> <<"+91">>, message |-> <<>>,
     instant |-> TRUE, delay_minutes |-> 0,
     account_sid |-> <<>>, auth_token |-> <<>>, from_number |-> <<>>,
     to_number |-> <<"+91">>, api_message |-> <<>>]

Terminal == {"Rejected", "Succeeded", "Failed"}

Init ==
    /\ pc = "Idle"
    /\ callNo = 1
    /\ form = DefaultForm
    /\ schedule = <<>>
    /\ now = <<>>
    /\ calls = <<>>
    /\ inflight = FALSE
    /\ outcome = <<>>
    /\ ret = <<>>
    /\ shown = <<>>
    /\ uncaught = <<>>

-----------------------------------------------------------------------------
(* Actions *)

\* lines 64-81: the browser form is filled in and its button pressed.
\* delay_minutes stays 0 unless "Schedule for Later" is chosen (lines 75-77).
SubmitBrowser(phones, messages, delays) ==
    /\ pc = "Idle"
    /\ \E p \in phones, m \in messages, instant \in BOOLEAN :
         \E d \in (IF instant THEN {0} ELSE delays) :
            form' = [DefaultForm EXCEPT !.tab = "Browser",
                                        !.phone_number = p,
                                        !.message = m,
                                        !.instant = instant,
                                        !.delay_minutes = d]
    /\ pc' = "Validating"
    /\ UNCHANGED <<callNo, schedule, now, calls, inflight, outcome, ret,
                   shown, uncaught>>

\* lines 108-117: the Twilio form is filled in and its button pressed
SubmitTwilio ==
    /\ pc = "Idle"
    /\ \E sid \in CredStr, tok \in CredStr, f \in Str, t \in Str, m \in Str :
            form' = [DefaultForm EXCEPT !.tab = "CloudAPI",
                                        !.account_sid = sid,
                                        !.auth_token = tok,
                                        !.from_number = f,
                                        !.to_number = t,
                                        !.api_message = m]
    /\ pc' = "Validating"
    /\ UNCHANGED <<callNo, schedule, now, calls, inflight, outcome, ret,
                   shown, uncaught>>

\* send_pywhatkit_message called by other code than the form, with a
\* schedule_time of the caller's making
DirectCall(phones, messages, delays) ==
    /\ pc = "Idle"
    /\ \E p \in phones, m \in messages, instant \in BOOLEAN, d \in delays :
         /\ form' = [DefaultForm EXCEPT !.tab = "Browser",
                                        !.direct = TRUE,
                                        !.phone_number = p,
                                        !.message = m,
                                        !.instant = instant,
                                        !.delay_minutes = d]
         /\ schedule' = <<[instant |-> instant, delay |-> d]>>
    /\ pc' = "Sending"
    /\ UNCHANGED <<callNo, now, calls, inflight, outcome, ret, shown,
                   uncaught>>

\* a handler whose test lets every submission through
ValidateNothing ==
    /\ pc = "Validating"
    /\ pc' = "Sending"
    /\ schedule' = IF form.tab = "Browser"
                   THEN <<[instant |-> form.instant,
                           delay |-> form.delay_minutes]>>
                   ELSE schedule
    /\ UNCHANGED <<callNo, form, now, calls, inflight, outcome, ret, shown,
                   uncaught>>

\* lines 82-83, 91-92 and 118, 127-128: the test on the fields
Validate ==
    /\ pc = "Validating"
    /\ IF form.tab = "Browser"
       THEN IF ValidBrowser(form)
            THEN /\ schedule' = <<[instant |-> form.instant,
                                   delay |-> form.delay_minutes]>>
                 /\ pc' = "Sending"
                 /\ shown' = shown
            ELSE /\ shown' = Append(shown, [level |-> "warning",
                                            text |-> BrowserWarning])
                 /\ pc' = "Rejected"
                 /\ schedule' = schedule
       ELSE IF ValidTwilio(form)
            THEN /\ pc' = "Sending"
                 /\ UNCHANGED <<schedule, shown>>
            ELSE /\ shown' = Append(shown, [level |-> "warning",
                                            text |-> TwilioWarning])
                 /\ pc' = "Rejected"
                 /\ schedule' = schedule
    /\ UNCHANGED <<callNo, form, now, calls, inflight, outcome, ret,
                   uncaught>>

\* lines 9-27: send_pywhatkit_message up to and including the call into
\* pywhatkit
BrowserInvoke(nows) ==
    /\ pc = "Sending"
    /\ form.tab = "Browser"
    /\ ~inflight
    /\ LET schedule_time == schedule[1]
       IN  IF schedule_time.instant
           THEN /\ calls' = Append(calls,
                        [fn |-> "sendwhatmsg_instantly",
                         phone_no |-> form.phone_number,
                         message |-> form.message,
                         wait_time |-> WaitTime,
                         tab_close |-> TRUE])
                /\ now' = now
           ELSE \E n \in nows :
                  /\ now' = <<n>>
                  /\ calls' = Append(calls,
                        [fn |-> "sendwhatmsg",
                         phone_no |-> form.phone_number,
                         message |-> form.message,
                         time_hour |-> send_time(n, schedule_time.delay).hour,
                         time_min |-> send_time(n, schedule_time.delay).minute])
    /\ inflight' = TRUE
    /\ UNCHANGED <<pc, callNo, form, schedule, outcome, ret, shown, uncaught>>

\* what the handler (lines 85-90) or a direct caller does with an exception
\* that send_pywhatkit_message lets through
BrowserRaise(e) ==
    IF ~form.direct /\ Clause(e, BrowserCaught) # 0
    THEN /\ shown' = Append(shown, [level |-> "error",
                                    text |-> BrowserErrorMessage(e)])
         /\ pc' = "Failed"
         /\ uncaught' = uncaught
    ELSE /\ uncaught' = <<e>>
         /\ pc' = IF form.direct THEN "Failed" ELSE "Crashed"
         /\ shown' = shown

\* a handler that calls send_pywhatkit_message again when it has raised
BrowserReturnRetry(faults) ==
    /\ inflight
    /\ form.tab = "Browser"
    /\ inflight' = FALSE
    /\ \/ /\ outcome' = <<[kind |-> "return"]>>
          /\ pc' = "Succeeded"
          /\ shown' = IF form.direct THEN shown
                      ELSE Append(shown, [level |-> "success",
                                          text |-> BrowserSuccessMessage])
          /\ uncaught' = uncaught
       \/ \E e \in faults :
            /\ outcome' = <<[kind |-> "raise", exc |-> e]>>
            /\ IF calls[Len(calls)].fn = "sendwhatmsg_instantly"
                  /\ Len(calls) < 3
               THEN UNCHANGED <<pc, shown, uncaught>>
               ELSE BrowserRaise(e)
    /\ UNCHANGED <<callNo, form, schedule, now, calls, ret>>

\* the call into pywhatkit returns or raises: lines 87-90
BrowserReturn(faults) ==
    /\ inflight
    /\ form.tab = "Browser"
    /\ inflight' = FALSE
    /\ \/ /\ outcome' = <<[kind |-> "return"]>>
          /\ pc' = "Succeeded"
          /\ shown' = IF form.direct THEN shown
                      ELSE Append(shown, [level |-> "success",
                                          text |-> BrowserSuccessMessage])
          /\ uncaught' = uncaught
       \/ \E e \in faults :
            /\ outcome' = <<[kind |-> "raise", exc |-> e]>>
            /\ BrowserRaise(e)
    /\ UNCHANGED <<callNo, form, schedule, now, calls, ret>>

\* lines 42-45 and 123-126: an exception raised inside the try of
\* send_twilio_message
TwilioRaise(e) ==
    LET k == Clause(e, TwilioCaught)
    IN  IF k = 0
        THEN /\ uncaught' = <<e>>
             /\ pc' = "Crashed"
             /\ UNCHANGED <<ret, shown>>
        ELSE LET r == [success |-> FALSE,
                       response_message |->
                           IF TwilioCaught[k] = "TwilioRestException"
                           THEN TwilioErrorMessage(e)
                           ELSE UnexpectedMessage(e)]
             IN  /\ ret' = <<r>>
                 /\ shown' = Append(shown, TwilioNotice(r))
                 /\ pc' = "Failed"
                 /\ uncaught' = uncaught

\* lines 119-122, 32-40: send_twilio_message up to and including the call of
\* client.messages.create; Client(sid, token) may raise
TwilioInvoke ==
    /\ pc = "Sending"
    /\ form.tab = "CloudAPI"
    /\ ~inflight
    /\ \/ \E e \in ClientFaults :
            /\ outcome' = <<[kind |-> "raise", at |-> "Client", exc |-> e]>>
            /\ TwilioRaise(e)
            /\ UNCHANGED <<calls, inflight>>
       \/ /\ calls' = Append(calls,
                  [fn |-> "messages.create",
                   account_sid |-> form.account_sid,
                   auth_token |-> form.auth_token,
                   body |-> form.api_message,
                   from_ |-> form.from_number,
                   to |-> formatted_to_num(form.to_number)])
          /\ inflight' = TRUE
          /\ UNCHANGED <<pc, outcome, ret, shown, uncaught>>
    /\ UNCHANGED <<callNo, form, schedule, now>>

\* client.messages.create returns a message or raises: lines 41-45, 123-126
TwilioReturn ==
    /\ inflight
    /\ form.tab = "CloudAPI"
    /\ inflight' = FALSE
    /\ \/ \E sid \in NonEmptyStr :
            LET r == [success |-> TRUE,
                      response_message |-> SuccessMessage(sid)]
            IN  /\ outcome' = <<[kind |-> "return", sid |-> sid]>>
                /\ ret' = <<r>>
                /\ shown' = Append(shown, TwilioNotice(r))
                /\ pc' = "Succeeded"
                /\ uncaught' = uncaught
       \/ \E e \in CreateFaults :
            /\ outcome' = <<[kind |-> "raise", at |-> "create", exc |-> e]>>
            /\ TwilioRaise(e)
    /\ UNCHANGED <<callNo, form, schedule, now, calls>>

\* the user interacts with the page again: Streamlit runs the script anew,
\* with none of the locals of the previous run
Rerun ==
    /\ pc \in Terminal
    /\ callNo < MaxCalls
    /\ callNo' = callNo + 1
    /\ pc' = "Idle"
    /\ form' = DefaultForm
    /\ schedule' = <<>>
    /\ now' = <<>>
    /\ calls' = <<>>
    /\ inflight' = FALSE
    /\ outcome' = <<>>
    /\ ret' = <<>>
    /\ shown' = <<>>
    /\ uncaught' = <<>>

-----------------------------------------------------------------------------
(* Specifications *)

FormBrowser == SubmitBrowser(Str, Str, DelaySample)

PywhatkitCall == BrowserInvoke(NowSample)

PywhatkitDone == BrowserReturn(BrowserFaults)

Next ==
    \/ FormBrowser
    \/ SubmitTwilio
    \/ Validate
    \/ PywhatkitCall
    \/ PywhatkitDone
    \/ TwilioInvoke
    \/ TwilioReturn
    \/ Rerun

\* the two forms of the page
Spec == Init /\ [][Next]_vars

\* the script runs to its end once the button is pressed, and a call into a
\* library returns or raises
LiveSpec ==
    /\ Spec
    /\ WF_vars(Validate)
    /\ WF_vars(PywhatkitCall)
    /\ WF_vars(PywhatkitDone)
    /\ WF_vars(TwilioInvoke)
    /\ WF_vars(TwilioReturn)

SchedPhones == {<<"+">>}

SchedMessages == {<<"1">>}

SchedFaults == [cls : {"CallTimeException"}, msg : {<<"1">>}]

FormSchedule == SubmitBrowser(SchedPhones, SchedMessages, AllDelays)

DirectSchedule == DirectCall(SchedPhones, SchedMessages, DirectDelays)

PywhatkitCallAnyTime == BrowserInvoke(AllNow)

PywhatkitDoneSched == BrowserReturn(SchedFaults)

NextSchedule ==
    \/ FormSchedule
    \/ DirectSchedule
    \/ Validate
    \/ PywhatkitCallAnyTime
    \/ PywhatkitDoneSched

\* the browser channel at every time of day and every delay, called from the
\* form and called directly
SpecSchedule == Init /\ [][NextSchedule]_vars

-----------------------------------------------------------------------------
(* Properties *)

Last(q) == q[Len(q)]

Raised == outcome # <<>> /\ outcome[1].kind = "raise"

Returned == outcome # <<>> /\ outcome[1].kind = "return"

\* a required field of the submitted form is empty
MissingField ==
    \/ /\ form.tab = "Browser"
       /\ \E x \in {form.phone_number, form.message} : Len(x) = 0
    \/ /\ form.tab = "CloudAPI"
       /\ \E x \in {form.to_number, form.api_message, form.account_sid,
                    form.auth_token, form.from_number} : Len(x) = 0

\* C1: a dispatch with an empty recipient number or body, or on the Twilio
\* form with an empty account SID, auth token or sender number, makes no call
\* into a channel at any point, and once validated it is rejected with a
\* single warning and nothing else.
C1_ValidationShortCircuits ==
    (form.tab \in {"Browser", "CloudAPI"} /\ ~form.direct /\ MissingField) =>
        /\ calls = <<>>
        /\ ~inflight
        /\ pc \in {"Validating", "Rejected"}
        /\ pc = "Rejected" =>
              /\ Len(shown) = 1
              /\ shown[1].level = "warning"
              /\ ret = <<>>

C1_Witness ==
    /\ pc = "Rejected"
    /\ form.tab = "CloudAPI"
    /\ form.from_number = <<>>
    /\ form.account_sid # <<>>
    /\ form.auth_token # <<>>
    /\ form.to_number # <<>>
    /\ form.api_message # <<>>
    /\ calls = <<>>

\* C2: no exception leaves the submit handler: whatever a library call
\* raises (pywhatkit, the construction of the Twilio client, messages.create)
\* the run ends in Failed with an error notification, and never with an
\* uncaught exception.
C2_NoFaultEscapes ==
    /\ uncaught = <<>>
    /\ pc # "Crashed"
    /\ Raised =>
          /\ pc = "Failed"
          /\ shown # <<>>
          /\ Last(shown).level = "error"

C2_Witness ==
    /\ Raised
    /\ form.tab = "CloudAPI"
    /\ outcome[1].at = "Client"
    /\ pc = "Failed"
    /\ calls = <<>>

\* C3: a dispatch calls into its channel at most once, and once the channel
\* has raised no further call is made in that dispatch.
C3_SingleAttempt ==
    /\ [](Len(calls) <= 1)
    /\ [][(Raised /\ callNo' = callNo) => calls' = calls]_vars

C3_Witness ==
    /\ pc = "Failed"
    /\ Raised
    /\ Len(calls) = 1
    /\ form.tab = "Browser"

\* C4 as stated: when the Twilio channel fails, the detail of the failure is
\* the provider's message (or the diagnostic string) itself.
C4_DetailIsVerbatim ==
    (form.tab = "CloudAPI" /\ Raised) =>
        /\ ret # <<>>
        /\ ~ret[1].success
        /\ ret[1].response_message = outcome[1].exc.msg

\* C4 as amended: when the Twilio channel fails, send_twilio_message returns
\* False with "Twilio Error: " followed by the provider's message for a
\* TwilioRestException, and with "An unexpected error occurred: " followed by
\* the diagnostic string for any other exception; that text is what the
\* error notification shows.
C4_DetailIsPrefixed ==
    (form.tab = "CloudAPI" /\ Raised) =>
        /\ ret # <<>>
        /\ ~ret[1].success
        /\ Len(ret[1].response_message) = 1 + Len(outcome[1].exc.msg)
        /\ ret[1].response_message[1] =
              (IF outcome[1].exc.cls = "TwilioRestException"
               THEN "Twilio Error: "
               ELSE "An unexpected error occurred: ")
        /\ Tail(ret[1].response_message) = outcome[1].exc.msg
        /\ Last(shown) = [level |-> "error",
                          text |-> ret[1].response_message]

C4_Witness ==
    /\ form.tab = "CloudAPI"
    /\ Raised
    /\ outcome[1].exc.cls = "TwilioRestException"
    /\ outcome[1].exc.msg # <<>>
    /\ pc = "Failed"

\* C5 as stated: when messages.create succeeds with message identifier id,
\* the confirmation returned is id itself.
C5_ConfirmationIsSid ==
    (form.tab = "CloudAPI" /\ Returned) =>
        /\ ret # <<>>
        /\ ret[1].success
        /\ ret[1].response_message = outcome[1].sid

\* C5 as amended: when messages.create succeeds with message identifier id,
\* send_twilio_message returns True with the text
\* "Message sent successfully! SID: " followed by id, the run ends in
\* Succeeded and the success notification shows that text.
C5_ConfirmationEmbedsSid ==
    (form.tab = "CloudAPI" /\ Returned) =>
        /\ ret # <<>>
        /\ ret[1].success
        /\ ret[1].response_message[1] = "Message sent successfully! SID: "
        /\ Tail(ret[1].response_message) = outcome[1].sid
        /\ pc = "Succeeded"
        /\ shown = <<[level |-> "success", text |-> ret[1].response_message]>>

C5_Witness ==
    /\ form.tab = "CloudAPI"
    /\ Returned
    /\ pc = "Succeeded"
    /\ outcome[1].sid # <<>>

\* C6: on the browser form, instantly or scheduled: if the call into
\* pywhatkit returns, the run ends in Succeeded with the fixed success
\* notification and no confirmation value; if it raises, the run ends in
\* Failed with an error notification that carries the exception's text.
C6_BrowserOutcome ==
    (form.tab = "Browser" /\ ~form.direct /\ outcome # <<>>) =>
        IF outcome[1].kind = "return"
        THEN /\ pc = "Succeeded"
             /\ ret = <<>>
             /\ Len(shown) = 1
             /\ shown[1].level = "success"
             /\ \A i \in 1..Len(shown[1].text) :
                   shown[1].text[i] \notin Alphabet
        ELSE /\ pc = "Failed"
             /\ Len(shown) = 1
             /\ shown[1].level = "error"
             /\ Tail(shown[1].text) = outcome[1].exc.msg

C6_Witness ==
    /\ form.tab = "Browser"
    /\ ~form.direct
    /\ ~form.instant
    /\ Returned
    /\ pc = "Succeeded"

\* C7: for every delay d in 1..60 and every time of day, a scheduled send
\* calls sendwhatmsg (not the instant send) with
\* time_min = (minute + d) mod 60 and
\* time_hour = (hour + (minute + d) div 60) mod 24.
C7_DelayedRollsOver ==
    (/\ calls # <<>>
     /\ form.tab = "Browser"
     /\ ~schedule[1].instant
     /\ schedule[1].delay \in 1..60) =>
        LET n == now[1]
            d == schedule[1].delay
        IN  /\ calls[1].fn = "sendwhatmsg"
            /\ calls[1].time_min = (n.minute + d) % 60
            /\ calls[1].time_hour = (n.hour + ((n.minute + d) \div 60)) % 24
            /\ calls[1].time_hour \in 0..23
            /\ calls[1].time_min \in 0..59

C7_Witness ==
    /\ calls # <<>>
    /\ ~form.direct
    /\ ~schedule[1].instant
    /\ schedule[1].delay = 5
    /\ now = <<[hour |-> 23, minute |-> 58]>>
    /\ calls[1].fn = "sendwhatmsg"
    /\ calls[1].time_hour = 0
    /\ calls[1].time_min = 3

\* C8: send_pywhatkit_message called directly for a scheduled send with a
\* delay d <= 0 makes no call into pywhatkit, and the only error it gives is
\* InvalidSchedule.
C8_RejectsNonPositiveDelay ==
    (/\ form.direct
     /\ schedule # <<>>
     /\ ~schedule[1].instant
     /\ schedule[1].delay <= 0) =>
        /\ calls = <<>>
        /\ uncaught # <<>> => uncaught[1].cls = "InvalidSchedule"

\* C9: client.messages.create is called with to = "whatsapp:" followed by the
\* recipient number, from_ = the sender number as typed and body = the
\* message as typed.
C9_RecipientPrefixed ==
    \A i \in 1..Len(calls) :
        calls[i].fn = "messages.create" =>
            /\ Len(calls[i].to) = 1 + Len(form.to_number)
            /\ calls[i].to[1] = "whatsapp:"
            /\ Tail(calls[i].to) = form.to_number
            /\ calls[i].from_ = form.from_number
            /\ calls[i].body = form.api_message

C9_Witness ==
    /\ calls # <<>>
    /\ calls[1].fn = "messages.create"
    /\ form.to_number = <<"+">>
    /\ calls[1].to = <<"whatsapp:", "+">>

Edges ==
    {<<"Idle", "Validating">>, <<"Validating", "Rejected">>,
     <<"Validating", "Sending">>, <<"Sending", "Succeeded">>,
     <<"Sending", "Failed">>}

\* C10: within one dispatch the position moves only along
\* Idle -> Validating -> {Rejected | Sending} -> {Succeeded | Failed};
\* a call into a channel is made only in Sending; Sending is entered only
\* from Validating with no required field missing; nothing changes in
\* Rejected, Succeeded or Failed until the next dispatch starts from Idle;
\* and a submitted dispatch reaches Rejected, Succeeded or Failed.
C10_StateMachine ==
    /\ [][callNo' = callNo =>
            /\ pc' # pc => <<pc, pc'>> \in Edges
            /\ calls' # calls => (pc = "Sending" /\ Len(calls') = Len(calls) + 1)
            /\ (pc' = "Sending" /\ pc # "Sending") =>
                  (pc = "Validating" /\ ~MissingField)
            /\ pc \in Terminal => UNCHANGED vars]_vars
    /\ [][callNo' # callNo => (pc \in Terminal /\ pc' = "Idle")]_vars
    /\ [](inflight => pc = "Sending")
    /\ (pc = "Validating") ~> (pc \in Terminal)

C10_Witness ==
    /\ callNo = 2
    /\ pc = "Succeeded"
    /\ Len(calls) = 1

====
